---- MODULE Spec2Model ----
(***************************************************************************)
(* Model of the quota-aware engine of emailManager:                        *)
(*   GmailClient.delete_user_emails  (src/src/api/gmail_client.py)         *)
(*   GmailClient.fetch_user_emails   (src/src/api/gmail_client.py)         *)
(*   GmailClient._handle_rate_limit  (src/src/api/gmail_client.py)         *)
(*   CleanupJob.run                  (src/src/scheduler.py)                *)
(*   SchedulerState.record_run       (src/src/scheduler.py)                *)
(*   GmailClient._wait_for_quota     (src/src/api/gmail_client.py)         *)
(*   the scheduling of the runs      (src/src/main.py)                     *)
(* The remote mail API is the environment: every response it can give      *)
(* (success, 429, other HttpError, other exception) is a nondeterministic  *)
(* choice.  Sleeps only pace the run and do not change the control flow.   *)
(***************************************************************************)
EXTENDS Integers, Sequences, FiniteSets, TLC

\* ---------------------------------------------------------------- bounds
MaxLen == 2          \* longest input list of delete_user_emails
NumIds == 2          \* distinct message ids
MaxPages == 3        \* pages the remote listing consists of
MaxPageLen == 1      \* longest page of the remote listing

\* ------------------------------------------------------ program constants
MAX_RETRIES == 5
MIN_BACKOFF_TIME == 2
MAX_BACKOFF_TIME == 120
\* the jitter is at most a tenth of the backoff (0.1 * backoff)
JitterDivisor == 10
\* delays are counted in tenths of a second
TicksPerSecond == 10
\* attempt indices and number of calls given to _handle_rate_limit
MaxAttempt == 7
MaxCalls == 2
\* throttling responses met by one run of the cleanup job
MaxJobThrottles == 1
\* the minimum of 0.1 s between two requests, in ticks of 50 ms
QUOTA_INTERVAL == 2
\* ticks of the clock that are followed
MaxTime == 5
\* calls of record_run
MaxRecords == 3
\* GmailClient objects constructed while the application runs
MaxClients == 3
\* record_run keeps the last 10 runs
HISTORY_LIMIT == 10
\* config.py: CLEANUP_CATEGORIES
CLEANUP_CATEGORIES == <<"promotions", "social">>
MaxBatchCap == 25
OverCapBatchSize == 30

Ids == 1..NumIds
\* app.state.gmail_client is None, or the n-th GmailClient constructed
NoClient == 0
NoToken == 0

Min(a, b) == IF a < b THEN a ELSE b

SeqsUpTo(S, n) == UNION {[1..k -> S] : k \in 0..n}

\* batch sizes a GmailClient is constructed with
RequestedBatchSizes == {1, 2, OverCapBatchSize}

VARIABLES
    \* GmailClient fields
    batch_size, current_batch_success, current_batch_errors,
    total_requests, rate_limit_hits,
    \* delete_user_emails: argument, locals, position
    cached, messages, pc, i, batch, batch_count, retry_count, deleted_count,
    cb, fi, individual_retry, result, raised,
    \* delete_user_emails: observations of the run
    requested_size, submitted, batch_error, attempts, batch_throttles,
    outcome, item_tries, tried_pos,
    \* fetch_user_emails: remote pages, locals, position
    pages, fpc, emails, page_token, f_retry_count, resp_token, f_cause,
    \* fetch_user_emails: observations of the latest listing request
    f_raised, last_token, last_result, emails_before,
    \* whether _wait_for_quota preceded the latest outbound request, the
    \* GmailClient field it writes, the sleep that followed the latest request
    quota_checked, last_request_time, last_sleep,
    \* time.time()
    now,
    \* record_run: every run the history was given, and the calls made
    recorded, records,
    \* the runs that use the client at the same time
    sharers,
    \* _wait_for_quota, per run: position and end of the sleep; the time of
    \* the latest return, and whether two returns came too close
    w_pc, w_wake, last_return, short_gap,
    \* one batch of delete_user_emails, per run: position, len(batch), the
    \* callbacks delivered, the successful ones among them, deleted_count
    s_pc, s_len, s_cb, s_own, s_deleted,
    \* _handle_rate_limit: argument, result and number of the calls made
    h_attempt, h_delay, h_outcome, h_calls,
    \* SchedulerState: categories, last_run, run_history
    categories, last_run, run_history,
    \* CleanupJob.run: position, loop index and locals
    jpc, cat_idx, category_results, total_deleted, overall_success, fetched,
    \* CleanupJob.run: items confirmed deleted, per category of the run
    confirmed,
    \* main.py: app.state.gmail_client, the running instance of the jobs
    \* 'cleanup' and 'cleanup_manual', and a submitted 'cleanup_manual'
    gmail_client, cron_client, cron_cat, manual_client, manual_cat,
    manual_pending

clientVars == <<batch_size, current_batch_success, current_batch_errors,
                total_requests, rate_limit_hits>>
deleteVars == <<cached, messages, pc, i, batch, batch_count, retry_count,
                deleted_count, cb, fi, individual_retry, result, raised>>
deleteObs  == <<requested_size, submitted, batch_error, attempts,
                batch_throttles, outcome, item_tries, tried_pos>>
fetchVars  == <<pages, fpc, emails, page_token, f_retry_count, resp_token,
                f_cause, f_raised, last_token, last_result, emails_before>>
quotaVars  == <<quota_checked, last_request_time, last_sleep>>
clockVars  == <<now>>
hrlVars    == <<h_attempt, h_delay, h_outcome, h_calls>>
stateVars  == <<categories, last_run, run_history>>
jobVars    == <<jpc, cat_idx, category_results, total_deleted,
                overall_success, fetched>>
jobObs     == <<confirmed>>
schedVars  == <<gmail_client, cron_client, cron_cat, manual_client,
                manual_cat, manual_pending>>
\* what only the specifications of the shared client and of the history use
histObs    == <<recorded, records>>
waitVars   == <<w_pc, w_wake, last_return, short_gap>>
shareVars  == <<s_pc, s_len, s_cb, s_own, s_deleted>>
extraVars  == <<clockVars, histObs, sharers, waitVars, shareVars>>
otherVars  == <<hrlVars, stateVars, jobVars, jobObs, schedVars, extraVars>>
nonDeleteVars == <<fetchVars, otherVars>>
nonFetchVars  == <<deleteVars, deleteObs, otherVars>>
vars == <<clientVars, deleteVars, deleteObs, fetchVars, quotaVars,
          otherVars>>

\* ------------------------------------------------------------ GmailClient
\* __init__: self.batch_size = min(batch_size, 25)
ClientBatchSize(size) == Min(size, MaxBatchCap)

\* variant: the retry limit is reached one attempt early
HandleRateLimitRaisesEarly(count) == count >= MAX_RETRIES - 1

\* _handle_rate_limit raises RateLimitError instead of returning a delay
HandleRateLimitRaises(count) == count >= MAX_RETRIES

\* variant: the slice runs one element into the next batch
PySliceOverlap(s, lo, hi) == SubSeq(s, lo + 1, Min(hi + 1, Len(s)))

\* messages[lo:hi] of Python, lo and hi 0-based
PySlice(s, lo, hi) == SubSeq(s, lo + 1, Min(hi, Len(s)))

ClientInit ==
    /\ requested_size \in RequestedBatchSizes
    /\ batch_size = ClientBatchSize(requested_size)
    /\ current_batch_success = 0
    /\ current_batch_errors = 0
    /\ total_requests = 0
    /\ rate_limit_hits = 0

\* positions (1-based) of the input covered by the current batch
BatchPositions == (i + 1)..(i + Len(batch))

\* positions of the k-th batch of the partition
PositionsOf(k) ==
    ((k - 1) * batch_size + 1)..Min(k * batch_size, Len(messages))

\* ----------------------------------------------------- delete_user_emails
DeleteIdle ==
    /\ cached = FALSE
    /\ messages = <<>> /\ pc = "idle" /\ i = 0 /\ batch = <<>>
    /\ batch_count = 0 /\ retry_count = 0 /\ deleted_count = 0
    /\ cb = 0 /\ fi = 0 /\ individual_retry = 0 /\ result = 0
    /\ raised = "none"
    /\ submitted = <<>> /\ batch_error = <<>> /\ attempts = 0
    /\ batch_throttles = 0
    /\ outcome = <<>> /\ item_tries = 0 /\ tried_pos = 0

FetchIdle ==
    /\ pages = <<>> /\ fpc = "idle" /\ emails = <<>>
    /\ page_token = NoToken /\ f_retry_count = 0 /\ resp_token = NoToken
    /\ f_cause = "none" /\ f_raised = "none"
    /\ last_token = NoToken /\ last_result = "none" /\ emails_before = 0

\* lines 30-39: last_request_time = 0, and nothing was requested yet
QuotaInit ==
    /\ quota_checked = TRUE /\ last_request_time = 0 /\ last_sleep = "none"

\* the clock stands still where the passing of time is not followed
ClockIdle == now = 1

\* lines 41-48, without the waiting: last_request_time = time.time()
WaitForQuota ==
    /\ quota_checked' = TRUE
    /\ last_request_time' = now

\* no call of _handle_rate_limit on its own is under way
HrlIdle ==
    /\ h_attempt = 0 /\ h_delay = 0 /\ h_outcome = "none" /\ h_calls = 0

\* SchedulerState() as constructed, and no run of the job under way
JobIdle ==
    /\ categories = CLEANUP_CATEGORIES
    /\ last_run = <<>> /\ run_history = <<>>
    /\ jpc = "idle" /\ cat_idx = 0 /\ category_results = <<>>
    /\ total_deleted = 0 /\ overall_success = TRUE /\ fetched = 0
    /\ confirmed = <<>>

\* no client, no job instance running, nothing submitted
SchedIdle ==
    /\ gmail_client = NoClient
    /\ cron_client = NoClient /\ cron_cat = 0
    /\ manual_client = NoClient /\ manual_cat = 0
    /\ manual_pending = FALSE

\* no call of record_run on its own was made
HistIdle == recorded = <<>> /\ records = 0

\* no run is inside _wait_for_quota
WaitIdle ==
    /\ w_pc = <<>> /\ w_wake = <<>> /\ last_return = 0 /\ short_gap = FALSE

\* no run is inside a batch of a shared client
ShareIdle ==
    /\ s_pc = <<>> /\ s_len = <<>> /\ s_cb = <<>>
    /\ s_own = <<>> /\ s_deleted = <<>>

\* what the specifications of one call on an unshared client leave idle
AloneIdle == sharers = {} /\ WaitIdle /\ ShareIdle

ExtraIdle == ClockIdle /\ HistIdle /\ AloneIdle

OthersIdle == HrlIdle /\ JobIdle /\ SchedIdle /\ ExtraIdle

InitDelete ==
    /\ ClientInit
    /\ cached \in BOOLEAN
    /\ messages \in (IF cached THEN SeqsUpTo(Ids, MaxLen) ELSE {<<>>})
    /\ pc = "start" /\ i = 0 /\ batch = <<>>
    /\ batch_count = 0 /\ retry_count = 0 /\ deleted_count = 0
    /\ cb = 0 /\ fi = 0 /\ individual_retry = 0 /\ result = 0
    /\ raised = "none"
    /\ submitted = <<>> /\ batch_error = <<>> /\ attempts = 0
    /\ batch_throttles = 0
    /\ outcome = [p \in 1..Len(messages) |-> "none"]
    /\ item_tries = 0 /\ tried_pos = 0
    /\ FetchIdle
    /\ OthersIdle
    /\ QuotaInit

\* variant: a category that is absent from the cache is an error
DeleteStartRaisesOnAbsent ==
    /\ pc = "start"
    /\ IF ~cached
       THEN /\ pc' = "raised" /\ raised' = "KeyError"
            /\ UNCHANGED <<batch, batch_count, result>>
       ELSE /\ raised' = raised
            /\ IF messages = <<>>
               THEN /\ pc' = "done" /\ result' = 0
                    /\ UNCHANGED <<batch, batch_count>>
               ELSE /\ pc' = "submit" /\ result' = result
                    /\ batch' = PySlice(messages, 0, batch_size)
                    /\ batch_count' = 1
    /\ UNCHANGED <<cached, messages, i, retry_count, deleted_count, cb, fi,
                   individual_retry>>
    /\ UNCHANGED <<clientVars, deleteObs, nonDeleteVars, quotaVars>>

\* lines 138-152: messages = cache.get(category); a category that is absent
\* or empty returns 0, otherwise the first batch is cut
DeleteStart ==
    /\ pc = "start"
    /\ IF ~cached \/ messages = <<>>
       THEN /\ pc' = "done" /\ result' = 0
            /\ UNCHANGED <<batch, batch_count>>
       ELSE /\ pc' = "submit" /\ result' = result
            /\ batch' = PySlice(messages, 0, batch_size)
            /\ batch_count' = 1
    /\ UNCHANGED <<cached, messages, i, retry_count, deleted_count, cb, fi,
                   individual_retry, raised>>
    /\ UNCHANGED <<clientVars, deleteObs, nonDeleteVars, quotaVars>>

\* the outcome of one request for the message at position p is delivered
Deliver(p) ==
    /\ item_tries' = (IF tried_pos = p THEN item_tries + 1 ELSE 1)
    /\ tried_pos' = p

\* a submission of the current batch is recorded once per attempt
RecordAttempt(err) ==
    /\ attempts' = attempts + 1
    /\ IF attempts = 0
       THEN /\ submitted' = Append(submitted, batch)
            /\ batch_error' = Append(batch_error, err)
       ELSE /\ submitted' = submitted
            /\ batch_error' = [batch_error EXCEPT ![Len(batch_error)] = err]

\* lines 150-152, 229-236: the for loop moves to the next batch or returns
LoopNext ==
    LET ni == i + batch_size IN
    IF ni < Len(messages)
    THEN /\ i' = ni
         /\ batch' = PySlice(messages, ni, ni + batch_size)
         /\ batch_count' = batch_count + 1
         /\ pc' = "submit"
         /\ result' = result
         /\ attempts' = 0
         /\ batch_throttles' = 0
    ELSE /\ pc' = "done"
         /\ result' = deleted_count'
         /\ attempts' = attempts
         /\ batch_throttles' = batch_throttles
         /\ UNCHANGED <<i, batch, batch_count>>

\* variant: a throttled submission is retried without counting the retry
BatchThrottledUncounted ==
    /\ pc = "submit"
    /\ current_batch_success' = 0
    /\ current_batch_errors' = 0
    /\ retry_count' = retry_count
    /\ rate_limit_hits' = rate_limit_hits
    /\ batch_throttles' = batch_throttles
    /\ pc' = "submit" /\ raised' = raised
    /\ attempts' = Min(attempts + 1, MAX_RETRIES + 1)
    /\ IF attempts = 0
       THEN /\ submitted' = Append(submitted, batch)
            /\ batch_error' = Append(batch_error, "none")
       ELSE UNCHANGED <<submitted, batch_error>>
    /\ UNCHANGED <<batch_size, total_requests>>
    /\ UNCHANGED <<cached, messages, i, batch, batch_count, deleted_count,
                   cb, fi, individual_retry, result>>
    /\ UNCHANGED <<requested_size, outcome, item_tries, tried_pos>>
    /\ WaitForQuota
    /\ last_sleep' = (IF pc' = "raised" THEN "none" ELSE "backoff")
    /\ UNCHANGED nonDeleteVars

\* lines 156-176, 193-198: batch_request.execute() raises HttpError 429
BatchThrottled ==
    /\ pc = "submit"
    /\ current_batch_success' = 0
    /\ current_batch_errors' = 0
    /\ retry_count' = retry_count + 1
    /\ rate_limit_hits' = rate_limit_hits + 1
    /\ batch_throttles' = batch_throttles + 1
    /\ IF HandleRateLimitRaises(retry_count')
       THEN /\ pc' = "raised" /\ raised' = "RateLimitError"
            /\ RecordAttempt("RateLimitError")
       ELSE /\ pc' = "submit" /\ raised' = raised
            /\ RecordAttempt("none")
    /\ UNCHANGED <<batch_size, total_requests>>
    /\ UNCHANGED <<cached, messages, i, batch, batch_count, deleted_count,
                   cb, fi, individual_retry, result>>
    /\ UNCHANGED <<requested_size, outcome, item_tries, tried_pos>>
    /\ WaitForQuota
    /\ last_sleep' = (IF pc' = "raised" THEN "none" ELSE "backoff")
    /\ UNCHANGED nonDeleteVars

\* lines 156-176, 193-199: execute() raises an HttpError that is not 429
BatchHttpError ==
    /\ pc = "submit"
    /\ current_batch_success' = 0
    /\ current_batch_errors' = 0
    /\ pc' = "raised" /\ raised' = "HttpError"
    /\ RecordAttempt("HttpError")
    /\ UNCHANGED <<batch_size, total_requests, rate_limit_hits>>
    /\ UNCHANGED <<cached, messages, i, batch, batch_count, retry_count,
                   deleted_count, cb, fi, individual_retry, result>>
    /\ UNCHANGED <<requested_size, batch_throttles, outcome, item_tries,
                   tried_pos>>
    /\ WaitForQuota
    /\ last_sleep' = "none"
    /\ UNCHANGED nonDeleteVars

\* lines 200-203: entry of the per-item fallback for the current batch
EnterFallback ==
    /\ pc' = "fallback"
    /\ fi' = 1
    /\ individual_retry' = 0
    /\ item_tries' = 0
    /\ tried_pos' = 0
    /\ outcome' = [p \in DOMAIN outcome |->
                     IF p \in BatchPositions THEN "none" ELSE outcome[p]]

\* lines 156-176, 200-203: building or executing the batch raises an
\* exception that is not an HttpError
BatchException ==
    /\ pc = "submit"
    /\ current_batch_success' = 0
    /\ current_batch_errors' = 0
    /\ EnterFallback
    /\ RecordAttempt("Exception")
    /\ UNCHANGED <<batch_size, total_requests, rate_limit_hits>>
    /\ UNCHANGED <<cached, messages, i, batch, batch_count, retry_count,
                   deleted_count, cb, result, raised>>
    /\ UNCHANGED <<requested_size, batch_throttles>>
    /\ WaitForQuota
    /\ last_sleep' = "none"
    /\ UNCHANGED nonDeleteVars

\* lines 156-176: the combined request is accepted; the per-item outcomes
\* are then delivered to _callback_success one by one
BatchAccepted ==
    /\ pc = "submit"
    /\ current_batch_success' = 0
    /\ current_batch_errors' = 0
    /\ pc' = "callbacks"
    /\ cb' = 1
    /\ RecordAttempt("none")
    /\ UNCHANGED <<batch_size, total_requests, rate_limit_hits>>
    /\ UNCHANGED <<cached, messages, i, batch, batch_count, retry_count,
                   deleted_count, fi, individual_retry, result, raised>>
    /\ UNCHANGED <<requested_size, batch_throttles, outcome, item_tries,
                   tried_pos>>
    /\ WaitForQuota
    /\ last_sleep' = "none"
    /\ UNCHANGED nonDeleteVars

\* what a delivery to _callback_success leaves alone
CallbackFrame ==
    /\ cb' = cb + 1
    /\ Deliver(i + cb)
    /\ UNCHANGED <<batch_size, total_requests, rate_limit_hits>>
    /\ UNCHANGED <<cached, messages, pc, i, batch, batch_count, retry_count,
                   deleted_count, fi, individual_retry, result, raised>>
    /\ UNCHANGED <<requested_size, submitted, batch_error, attempts,
                   batch_throttles>>
    /\ UNCHANGED <<nonDeleteVars, quotaVars>>

\* lines 124-125: _callback_success(request_id, response, None)
CallbackOk ==
    /\ pc = "callbacks" /\ cb <= Len(batch)
    /\ current_batch_success' = current_batch_success + 1
    /\ current_batch_errors' = current_batch_errors
    /\ outcome' = [outcome EXCEPT ![i + cb] = "ok"]
    /\ CallbackFrame

\* lines 116-120: _callback_success with an HttpError of status 429
CallbackThrottled ==
    /\ pc = "callbacks" /\ cb <= Len(batch)
    /\ current_batch_errors' = current_batch_errors + 1
    /\ current_batch_success' = current_batch_success
    /\ outcome' = [outcome EXCEPT ![i + cb] = "throttled"]
    /\ CallbackFrame

\* variant: an item that failed is not counted at all
CallbackFailedUncounted ==
    /\ pc = "callbacks" /\ cb <= Len(batch)
    /\ current_batch_errors' = current_batch_errors
    /\ current_batch_success' = current_batch_success
    /\ outcome' = [outcome EXCEPT ![i + cb] = "failed"]
    /\ CallbackFrame

\* lines 121-123: _callback_success with any other exception
CallbackFailed ==
    /\ pc = "callbacks" /\ cb <= Len(batch)
    /\ current_batch_errors' = current_batch_errors + 1
    /\ current_batch_success' = current_batch_success
    /\ outcome' = [outcome EXCEPT ![i + cb] = "failed"]
    /\ CallbackFrame

\* lines 176, 200-203: execute() raises an exception that is not an
\* HttpError while the responses are being processed
ExecuteAborts ==
    /\ pc = "callbacks" /\ cb <= Len(batch)
    /\ EnterFallback
    /\ batch_error' = [batch_error EXCEPT ![Len(batch_error)] = "Exception"]
    /\ UNCHANGED clientVars
    /\ UNCHANGED <<cached, messages, i, batch, batch_count, retry_count,
                   deleted_count, cb, result, raised>>
    /\ UNCHANGED <<requested_size, submitted, attempts, batch_throttles>>
    /\ UNCHANGED <<nonDeleteVars, quotaVars>>

\* variant: the error callbacks are added to deleted_count as well
AfterExecuteCountsErrors ==
    /\ pc = "callbacks" /\ cb > Len(batch)
    /\ total_requests' = total_requests + Len(batch)
    /\ deleted_count' =
           deleted_count + current_batch_success + current_batch_errors
    /\ retry_count' = 0
    /\ LoopNext
    /\ UNCHANGED <<batch_size, current_batch_success, current_batch_errors,
                   rate_limit_hits>>
    /\ UNCHANGED <<cached, messages, cb, fi, individual_retry, raised>>
    /\ UNCHANGED <<requested_size, submitted, batch_error, outcome,
                   item_tries, tried_pos>>
    /\ last_sleep' = (IF i + batch_size < Len(messages) THEN "BATCH_DELAY"
                                                        ELSE last_sleep)
    /\ UNCHANGED <<nonDeleteVars, quota_checked, last_request_time>>

\* lines 177-191, 229-232: execute() returned
AfterExecute ==
    /\ pc = "callbacks" /\ cb > Len(batch)
    /\ total_requests' = total_requests + Len(batch)
    /\ deleted_count' = deleted_count + current_batch_success
    /\ retry_count' = 0
    /\ LoopNext
    /\ UNCHANGED <<batch_size, current_batch_success, current_batch_errors,
                   rate_limit_hits>>
    /\ UNCHANGED <<cached, messages, cb, fi, individual_retry, raised>>
    /\ UNCHANGED <<requested_size, submitted, batch_error, outcome,
                   item_tries, tried_pos>>
    /\ last_sleep' = (IF i + batch_size < Len(messages) THEN "BATCH_DELAY"
                                                        ELSE last_sleep)
    /\ UNCHANGED <<nonDeleteVars, quota_checked, last_request_time>>

\* lines 203-204, 226-227: the fallback moves to the next item of the
\* batch, or leaves the retry loop after the last one
FallbackNextItem ==
    IF fi < Len(batch)
    THEN /\ fi' = fi + 1
         /\ individual_retry' = 0
         /\ pc' = "fallback"
         /\ UNCHANGED <<i, batch, batch_count, result, attempts,
                        batch_throttles>>
    ELSE /\ LoopNext
         /\ UNCHANGED <<fi, individual_retry>>

\* lines 205-214: the individual trash call succeeds
FallbackOk ==
    /\ pc = "fallback"
    /\ total_requests' = total_requests + 1
    /\ deleted_count' = deleted_count + 1
    /\ outcome' = [outcome EXCEPT ![i + fi] = "ok"]
    /\ Deliver(i + fi)
    /\ FallbackNextItem
    /\ UNCHANGED <<batch_size, current_batch_success, current_batch_errors,
                   rate_limit_hits>>
    /\ UNCHANGED <<cached, messages, retry_count, cb, raised>>
    /\ UNCHANGED <<requested_size, submitted, batch_error>>
    /\ WaitForQuota
    /\ last_sleep' = "item"
    /\ UNCHANGED nonDeleteVars

\* lines 215-220: the individual trash call raises HttpError 429; the
\* range(MAX_RETRIES) loop ends after its last round
FallbackThrottled ==
    /\ pc = "fallback"
    /\ rate_limit_hits' = rate_limit_hits + 1
    /\ deleted_count' = deleted_count
    /\ Deliver(i + fi)
    /\ IF HandleRateLimitRaises(individual_retry)
       THEN /\ pc' = "raised" /\ raised' = "RateLimitError"
            /\ UNCHANGED <<i, batch, batch_count, fi, individual_retry,
                           result, attempts, batch_throttles, outcome>>
       ELSE /\ raised' = raised
            /\ IF individual_retry + 1 < MAX_RETRIES
               THEN /\ individual_retry' = individual_retry + 1
                    /\ UNCHANGED <<pc, i, batch, batch_count, fi, result,
                                   attempts, batch_throttles, outcome>>
               ELSE /\ outcome' = [outcome EXCEPT ![i + fi] = "throttled"]
                    /\ FallbackNextItem
    /\ UNCHANGED <<batch_size, current_batch_success, current_batch_errors,
                   total_requests>>
    /\ UNCHANGED <<cached, messages, retry_count, cb>>
    /\ UNCHANGED <<requested_size, submitted, batch_error>>
    /\ WaitForQuota
    /\ last_sleep' = (IF pc' = "raised" THEN "none"
                     ELSE IF individual_retry + 1 < MAX_RETRIES
                          THEN "backoff" ELSE "item")
    /\ UNCHANGED nonDeleteVars

\* variant: a failed individual trash call is re-raised to the caller
FallbackFailedAborts ==
    /\ pc = "fallback"
    /\ outcome' = [outcome EXCEPT ![i + fi] = "failed"]
    /\ Deliver(i + fi)
    /\ pc' = "raised" /\ raised' = "HttpError"
    /\ UNCHANGED clientVars
    /\ UNCHANGED <<cached, messages, i, batch, batch_count, retry_count,
                   deleted_count, cb, fi, individual_retry, result>>
    /\ UNCHANGED <<requested_size, submitted, batch_error, attempts,
                   batch_throttles>>
    /\ WaitForQuota
    /\ last_sleep' = "none"
    /\ UNCHANGED nonDeleteVars

\* lines 221-225: the individual trash call raises any other error
FallbackFailed ==
    /\ pc = "fallback"
    /\ outcome' = [outcome EXCEPT ![i + fi] = "failed"]
    /\ Deliver(i + fi)
    /\ deleted_count' = deleted_count
    /\ FallbackNextItem
    /\ UNCHANGED clientVars
    /\ UNCHANGED <<cached, messages, retry_count, cb, raised>>
    /\ UNCHANGED <<requested_size, submitted, batch_error>>
    /\ WaitForQuota
    /\ last_sleep' = "item"
    /\ UNCHANGED nonDeleteVars

NextDelete ==
    \/ DeleteStart
    \/ BatchThrottled
    \/ BatchHttpError
    \/ BatchException
    \/ BatchAccepted
    \/ CallbackOk
    \/ CallbackThrottled
    \/ CallbackFailed
    \/ ExecuteAborts
    \/ AfterExecute
    \/ FallbackOk
    \/ FallbackThrottled
    \/ FallbackFailed

SpecDelete == InitDelete /\ [][NextDelete]_vars

\* the ids play no part in the control flow: one id stands for all of them
InitDeleteLive ==
    /\ InitDelete
    /\ \A p \in DOMAIN messages : messages[p] = 1

\* the call keeps running: every remote request is answered in the end and
\* every sleep ends
SpecDeleteLive ==
    InitDeleteLive /\ [][NextDelete]_vars /\ WF_vars(NextDelete)

TypeDelete ==
    /\ pc \in {"idle", "start", "submit", "callbacks", "fallback", "done",
               "raised"}
    /\ retry_count \in 0..MAX_RETRIES
    /\ individual_retry \in 0..(MAX_RETRIES - 1)
    /\ deleted_count \in 0..Len(messages)

\* ------------------------------------------------------ fetch_user_emails
\* the remote listing: 1..MaxPages pages of at most MaxPageLen ids each;
\* every page but the last carries the token of the page after it
Listings ==
    UNION {[1..n -> SeqsUpTo(Ids, MaxPageLen)] : n \in 1..MaxPages}

\* the page the remote serves for a token (None asks for the first page)
PageFor(token) == IF token = NoToken THEN 1 ELSE token

\* results.get('nextPageToken') of the response that serves page k
NextTokenOf(k) == IF k < Len(pages) THEN k + 1 ELSE NoToken

\* lines 69-72
InitFetch ==
    /\ ClientInit
    /\ DeleteIdle
    /\ pages \in Listings
    /\ fpc = "page" /\ emails = <<>>
    /\ page_token = NoToken /\ f_retry_count = 0 /\ resp_token = NoToken
    /\ f_cause = "none" /\ f_raised = "none"
    /\ last_token = NoToken /\ last_result = "none" /\ emails_before = 0
    /\ OthersIdle
    /\ QuotaInit

\* the request of lines 77-82 is sent without a call of _wait_for_quota
ListRequest(outcome_kind) ==
    /\ last_token' = page_token
    /\ last_result' = outcome_kind
    /\ emails_before' = Len(emails)
    /\ quota_checked' = FALSE
    /\ last_request_time' = last_request_time

\* variant: the outer handler lets the exception through as it is
WrapFetchErrorLeaks(cause) == cause

\* lines 110-112: whatever is raised inside leaves as a GmailError
WrapFetchError(cause) == "GmailError"

\* lines 77-96, 106-108: the listing request succeeds
ListOk ==
    /\ fpc = "page"
    /\ LET k == PageFor(page_token)
           found == pages[k]
       IN /\ total_requests' = total_requests + 1
          /\ resp_token' = NextTokenOf(k)
          /\ IF found = <<>>
             THEN /\ fpc' = "done"
                  /\ UNCHANGED <<emails, page_token>>
             ELSE /\ emails' = emails \o found
                  /\ page_token' = NextTokenOf(k)
                  /\ fpc' = (IF NextTokenOf(k) = NoToken THEN "done"
                                                         ELSE "page")
    /\ UNCHANGED <<batch_size, current_batch_success, current_batch_errors,
                   rate_limit_hits>>
    /\ ListRequest("ok")
    /\ last_sleep' = (IF fpc' = "page" THEN "page" ELSE "none")
    /\ UNCHANGED <<pages, f_retry_count, f_cause, f_raised>>
    /\ UNCHANGED nonFetchVars

\* variant: the retry after a 429 moves on to the following page
ListThrottledSkipsPage ==
    /\ fpc = "page"
    /\ f_retry_count' = f_retry_count + 1
    /\ rate_limit_hits' = rate_limit_hits + 1
    /\ page_token' = NextTokenOf(PageFor(page_token))
    /\ IF HandleRateLimitRaises(f_retry_count')
       THEN /\ fpc' = "raised" /\ f_cause' = "RateLimitError"
            /\ f_raised' = WrapFetchError("RateLimitError")
       ELSE /\ fpc' = "page" /\ f_cause' = f_cause
            /\ f_raised' = f_raised
    /\ ListRequest("throttled")
    /\ last_sleep' = (IF fpc' = "page" THEN "backoff" ELSE "none")
    /\ UNCHANGED <<batch_size, current_batch_success, current_batch_errors,
                   total_requests>>
    /\ UNCHANGED <<pages, emails, resp_token>>
    /\ UNCHANGED nonFetchVars

\* lines 98-103, 110-112: the listing request raises HttpError 429
ListThrottled ==
    /\ fpc = "page"
    /\ f_retry_count' = f_retry_count + 1
    /\ rate_limit_hits' = rate_limit_hits + 1
    /\ IF HandleRateLimitRaises(f_retry_count')
       THEN /\ fpc' = "raised" /\ f_cause' = "RateLimitError"
            /\ f_raised' = WrapFetchError("RateLimitError")
       ELSE /\ fpc' = "page" /\ f_cause' = f_cause
            /\ f_raised' = f_raised
    /\ ListRequest("throttled")
    /\ last_sleep' = (IF fpc' = "page" THEN "backoff" ELSE "none")
    /\ UNCHANGED <<batch_size, current_batch_success, current_batch_errors,
                   total_requests>>
    /\ UNCHANGED <<pages, emails, page_token, resp_token>>
    /\ UNCHANGED nonFetchVars

\* lines 98-104, 110-112: the listing request raises another HttpError
ListHttpError ==
    /\ fpc = "page"
    /\ fpc' = "raised" /\ f_cause' = "HttpError"
    /\ f_raised' = WrapFetchError("HttpError")
    /\ ListRequest("error")
    /\ last_sleep' = "none"
    /\ UNCHANGED clientVars
    /\ UNCHANGED <<pages, emails, page_token, f_retry_count, resp_token>>
    /\ UNCHANGED nonFetchVars

\* lines 110-112: the listing request raises any other exception
ListException ==
    /\ fpc = "page"
    /\ fpc' = "raised" /\ f_cause' = "Exception"
    /\ f_raised' = WrapFetchError("Exception")
    /\ ListRequest("error")
    /\ last_sleep' = "none"
    /\ UNCHANGED clientVars
    /\ UNCHANGED <<pages, emails, page_token, f_retry_count, resp_token>>
    /\ UNCHANGED nonFetchVars

NextFetch ==
    \/ ListOk
    \/ ListThrottled
    \/ ListHttpError
    \/ ListException

SpecFetch == InitFetch /\ [][NextFetch]_vars

TypeFetch ==
    /\ fpc \in {"idle", "page", "done", "raised"}
    /\ f_retry_count \in 0..MAX_RETRIES
    /\ page_token \in 0..Len(pages)

\* ---------------------------------------------------------- CleanupJob.run
\* state.categories: the default list or a shorter configured one
CategoryLists ==
    {SubSeq(CLEANUP_CATEGORIES, 1, n) : n \in 0..Len(CLEANUP_CATEGORIES)}

\* what the remote lists for one category: one page of 0..MaxLen ids
JobMailboxes == {<<[p \in 1..n |-> p]>> : n \in 0..Min(MaxLen, NumIds)}

CategoryResult(c, f, d, e) ==
    [category |-> c, fetched |-> f, deleted |-> d, error |-> e]

\* the timestamp of a RunRecord is left out
RunRecord(ok, results, total) ==
    [success |-> ok, categories |-> results, total_deleted |-> total]

\* variant: the oldest runs are kept
LastNKeepsOldest(h, n) == IF Len(h) > n THEN SubSeq(h, 1, n) ELSE h

\* run_history[-10:]
LastN(h, n) == IF Len(h) > n THEN SubSeq(h, Len(h) - n + 1, Len(h)) ELSE h

\* scheduler.py lines 103-113: CleanupJob.run has been called with a client
\* as constructed and is about to enter the loop over state.categories
InitJob ==
    /\ ClientInit
    /\ DeleteIdle
    /\ FetchIdle
    /\ HrlIdle
    /\ ExtraIdle
    /\ SchedIdle
    /\ QuotaInit
    /\ categories \in CategoryLists
    /\ last_run = <<>> /\ run_history = <<>>
    /\ jpc = "loop" /\ cat_idx = 1 /\ category_results = <<>>
    /\ total_deleted = 0 /\ overall_success = TRUE /\ fetched = 0
    /\ confirmed = <<>>

\* the locals of fetch_user_emails are gone once the call is over
FetchReset ==
    /\ pages' = <<>> /\ fpc' = "idle" /\ emails' = <<>>
    /\ page_token' = NoToken /\ f_retry_count' = 0 /\ resp_token' = NoToken
    /\ f_cause' = "none" /\ f_raised' = "none"
    /\ last_token' = NoToken /\ last_result' = "none" /\ emails_before' = 0

\* the locals of delete_user_emails are gone once the call is over
DeleteReset ==
    /\ cached' = FALSE
    /\ messages' = <<>> /\ pc' = "idle" /\ i' = 0 /\ batch' = <<>>
    /\ batch_count' = 0 /\ retry_count' = 0 /\ deleted_count' = 0
    /\ cb' = 0 /\ fi' = 0 /\ individual_retry' = 0 /\ result' = 0
    /\ raised' = "none"
    /\ submitted' = <<>> /\ batch_error' = <<>> /\ attempts' = 0
    /\ batch_throttles' = 0
    /\ outcome' = <<>> /\ item_tries' = 0 /\ tried_pos' = 0
    /\ requested_size' = requested_size

\* the loop moves to the next category with one more result
NextCategory(res, done) ==
    /\ category_results' = Append(category_results, res)
    /\ confirmed' = Append(confirmed, done)
    /\ cat_idx' = cat_idx + 1
    /\ jpc' = "loop"

\* scheduler.py lines 115-121: fetch_user_emails is called for the category
JobFetchCall ==
    /\ jpc = "loop"
    /\ cat_idx <= Len(categories)
    /\ jpc' = "fetching"
    /\ pages' \in JobMailboxes
    /\ fpc' = "page" /\ emails' = <<>>
    /\ page_token' = NoToken /\ f_retry_count' = 0 /\ resp_token' = NoToken
    /\ f_cause' = "none" /\ f_raised' = "none"
    /\ last_token' = NoToken /\ last_result' = "none" /\ emails_before' = 0
    /\ UNCHANGED <<cat_idx, category_results, total_deleted,
                   overall_success, fetched>>
    /\ UNCHANGED <<clientVars, deleteVars, deleteObs, quotaVars, hrlVars,
                   extraVars,
                   schedVars, stateVars, jobObs>>

\* scheduler.py lines 122-128: nothing fetched
JobFetchEmpty ==
    /\ jpc = "fetching" /\ fpc = "done" /\ emails = <<>>
    /\ fetched' = 0
    /\ NextCategory(CategoryResult(categories[cat_idx], 0, 0, "none"), 0)
    /\ FetchReset
    /\ UNCHANGED <<total_deleted, overall_success>>
    /\ UNCHANGED <<clientVars, deleteVars, deleteObs, quotaVars, hrlVars,
                   extraVars,
                   schedVars, stateVars>>

\* scheduler.py lines 122, 130-131: delete_user_emails({category: emails})
JobDeleteCall ==
    /\ jpc = "fetching" /\ fpc = "done" /\ emails # <<>>
    /\ fetched' = Len(emails)
    /\ jpc' = "deleting"
    /\ cached' = TRUE
    /\ messages' = emails
    /\ pc' = "start" /\ i' = 0 /\ batch' = <<>>
    /\ batch_count' = 0 /\ retry_count' = 0 /\ deleted_count' = 0
    /\ cb' = 0 /\ fi' = 0 /\ individual_retry' = 0 /\ result' = 0
    /\ raised' = "none"
    /\ submitted' = <<>> /\ batch_error' = <<>> /\ attempts' = 0
    /\ batch_throttles' = 0
    /\ outcome' = [p \in 1..Len(emails) |-> "none"]
    /\ item_tries' = 0 /\ tried_pos' = 0
    /\ requested_size' = requested_size
    /\ FetchReset
    /\ UNCHANGED <<cat_idx, category_results, total_deleted,
                   overall_success>>
    /\ UNCHANGED <<clientVars, quotaVars, hrlVars, extraVars, schedVars,
                   stateVars, jobObs>>

\* scheduler.py lines 139-144: the exception of fetch_user_emails is caught
JobFetchRaised ==
    /\ jpc = "fetching" /\ fpc = "raised"
    /\ overall_success' = FALSE
    /\ NextCategory(CategoryResult(categories[cat_idx], 0, 0, f_raised), 0)
    /\ FetchReset
    /\ UNCHANGED <<total_deleted, fetched>>
    /\ UNCHANGED <<clientVars, deleteVars, deleteObs, quotaVars, hrlVars,
                   extraVars,
                   schedVars, stateVars>>

\* scheduler.py lines 131-136: delete_user_emails returned its count
JobDeleteReturned ==
    /\ jpc = "deleting" /\ pc = "done"
    /\ total_deleted' = total_deleted + result
    /\ NextCategory(CategoryResult(categories[cat_idx], fetched, result,
                                   "none"), deleted_count)
    /\ DeleteReset
    /\ UNCHANGED <<overall_success, fetched>>
    /\ UNCHANGED <<clientVars, fetchVars, quotaVars, hrlVars, extraVars,
                   schedVars, stateVars>>

\* variant: only a RateLimitError of delete_user_emails is caught
JobDeleteRaisedEscapes ==
    /\ jpc = "deleting" /\ pc = "raised"
    /\ IF raised = "RateLimitError"
       THEN /\ overall_success' = FALSE
            /\ NextCategory(CategoryResult(categories[cat_idx], 0, 0,
                                           raised), deleted_count)
       ELSE /\ jpc' = "escaped"
            /\ UNCHANGED <<overall_success, category_results, confirmed,
                           cat_idx>>
    /\ DeleteReset
    /\ UNCHANGED <<total_deleted, fetched>>
    /\ UNCHANGED <<clientVars, fetchVars, quotaVars, hrlVars, extraVars,
                   schedVars, stateVars>>

\* scheduler.py lines 139-144: the exception of delete_user_emails is caught
JobDeleteRaised ==
    /\ jpc = "deleting" /\ pc = "raised"
    /\ overall_success' = FALSE
    /\ NextCategory(CategoryResult(categories[cat_idx], 0, 0, raised),
                    deleted_count)
    /\ DeleteReset
    /\ UNCHANGED <<total_deleted, fetched>>
    /\ UNCHANGED <<clientVars, fetchVars, quotaVars, hrlVars, extraVars,
                   schedVars, stateVars>>

\* scheduler.py lines 146-154 and record_run, lines 80-86
JobRecord ==
    /\ jpc = "loop"
    /\ cat_idx > Len(categories)
    /\ LET run == RunRecord(overall_success, category_results, total_deleted)
       IN /\ last_run' = <<run>>
          /\ run_history' = LastN(Append(run_history, run), HISTORY_LIMIT)
    /\ jpc' = "done"
    /\ UNCHANGED <<categories, cat_idx, category_results, total_deleted,
                   overall_success, fetched, confirmed>>
    /\ UNCHANGED <<clientVars, deleteVars, deleteObs, fetchVars, quotaVars,
                   hrlVars, extraVars, schedVars>>

\* the steps of the call of fetch_user_emails made by the run
JobFetchStep ==
    /\ jpc = "fetching"
    /\ NextFetch
    /\ rate_limit_hits' <= MaxJobThrottles

\* the steps of the call of delete_user_emails made by the run
JobDeleteStep ==
    /\ jpc = "deleting"
    /\ NextDelete
    /\ rate_limit_hits' <= MaxJobThrottles

NextJob ==
    \/ JobFetchCall
    \/ JobFetchStep
    \/ JobFetchEmpty
    \/ JobFetchRaised
    \/ JobDeleteCall
    \/ JobDeleteStep
    \/ JobDeleteReturned
    \/ JobDeleteRaised
    \/ JobRecord

SpecJob == InitJob /\ [][NextJob]_vars

TypeJob ==
    /\ jpc \in {"idle", "loop", "fetching", "deleting", "done"}
    /\ cat_idx \in 1..(Len(categories) + 1)
    /\ Len(run_history) <= HISTORY_LIMIT
    /\ Len(category_results) <= Len(categories)
    /\ rate_limit_hits <= MaxJobThrottles

\* ------------------------------------------------ SchedulerManager.record_run
\* the k-th run given to the history; its categories are left empty
NthRun(k, ok) == RunRecord(ok, <<>>, k)

\* a stored history of at most HISTORY_LIMIT runs
StoredHistories ==
    {[k \in 1..n |-> NthRun(k, TRUE)] : n \in 0..HISTORY_LIMIT}

\* the state file as loaded: last_run is None or the latest stored run
InitHistory ==
    /\ ClientInit
    /\ DeleteIdle
    /\ FetchIdle
    /\ HrlIdle
    /\ SchedIdle
    /\ ClockIdle
    /\ AloneIdle
    /\ QuotaInit
    /\ categories = CLEANUP_CATEGORIES
    /\ run_history \in StoredHistories
    /\ last_run \in {<<>>}
          \cup {<<run_history[k]>> : k \in {Len(run_history)} \ {0}}
    /\ jpc = "idle" /\ cat_idx = 0 /\ category_results = <<>>
    /\ total_deleted = 0 /\ overall_success = TRUE /\ fetched = 0
    /\ confirmed = <<>>
    /\ recorded = run_history
    /\ records = 0

\* scheduler.py lines 80-86: record_run(run)
RecordRun(run) ==
    /\ records < MaxRecords
    /\ last_run' = <<run>>
    /\ run_history' = LastN(Append(run_history, run), HISTORY_LIMIT)
    /\ recorded' = Append(recorded, run)
    /\ records' = records + 1
    /\ UNCHANGED <<categories, jobVars, jobObs>>
    /\ UNCHANGED <<clientVars, deleteVars, deleteObs, fetchVars, quotaVars,
                   hrlVars, schedVars, clockVars, sharers, waitVars,
                   shareVars>>

NextHistory ==
    \E ok \in BOOLEAN : RecordRun(NthRun(Len(recorded) + 1, ok))

SpecHistory == InitHistory /\ [][NextHistory]_vars

TypeHistory ==
    /\ records \in 0..MaxRecords
    /\ Len(recorded) <= HISTORY_LIMIT + MaxRecords
    /\ Len(last_run) <= 1

\* --------------------------------------------------------- _wait_for_quota
\* The runs of the jobs 'cleanup' and 'cleanup_manual' call _wait_for_quota
\* of the one client from their own threads; a step of a run is one
\* statement, and the clock ticks between any two steps.
SharerSets == {{"cleanup"}, {"cleanup", "cleanup_manual"}}

\* what a step of _wait_for_quota leaves alone
WaitFrame ==
    /\ UNCHANGED <<clientVars, deleteVars, deleteObs, fetchVars>>
    /\ UNCHANGED <<quota_checked, last_sleep>>
    /\ UNCHANGED <<hrlVars, stateVars, jobVars, jobObs, schedVars, histObs,
                   sharers, shareVars>>

InitQuota ==
    /\ ClientInit
    /\ DeleteIdle
    /\ FetchIdle
    /\ HrlIdle
    /\ JobIdle
    /\ SchedIdle
    /\ HistIdle
    /\ QuotaInit
    /\ now = 1
    /\ sharers \in SharerSets
    /\ w_pc = [t \in sharers |-> "idle"]
    /\ w_wake = [t \in sharers |-> 0]
    /\ last_return = 0
    /\ short_gap = FALSE
    /\ ShareIdle

\* time passes
Tick ==
    /\ now < MaxTime
    /\ now' = now + 1
    /\ UNCHANGED <<last_request_time, waitVars>>
    /\ WaitFrame

\* lines 43-47: now = time.time(); the time to sleep is worked out from
\* last_request_time
WaitRead(t) ==
    /\ w_pc[t] = "idle"
    /\ LET elapsed == now - last_request_time
       IN IF last_request_time > 0 /\ elapsed < QUOTA_INTERVAL
          THEN /\ w_pc' = [w_pc EXCEPT ![t] = "sleep"]
               /\ w_wake' = [w_wake EXCEPT
                                ![t] = now + QUOTA_INTERVAL - elapsed]
          ELSE /\ w_pc' = [w_pc EXCEPT ![t] = "write"]
               /\ w_wake' = w_wake
    /\ UNCHANGED <<now, last_request_time, last_return, short_gap>>
    /\ WaitFrame

\* line 47: time.sleep ends no earlier than asked for
WaitWake(t) ==
    /\ w_pc[t] = "sleep"
    /\ now >= w_wake[t]
    /\ w_pc' = [w_pc EXCEPT ![t] = "write"]
    /\ UNCHANGED <<now, last_request_time, w_wake, last_return, short_gap>>
    /\ WaitFrame

\* line 48: last_request_time = time.time(), and the call returns
WaitWrite(t) ==
    /\ w_pc[t] = "write"
    /\ last_request_time' = now
    /\ w_pc' = [w_pc EXCEPT ![t] = "idle"]
    /\ short_gap' = (short_gap \/ (last_return > 0
                                     /\ now - last_return < QUOTA_INTERVAL))
    /\ last_return' = now
    /\ UNCHANGED <<now, w_wake>>
    /\ WaitFrame

NextQuota ==
    \/ Tick
    \/ \E t \in sharers : WaitRead(t)
    \/ \E t \in sharers : WaitWake(t)
    \/ \E t \in sharers : WaitWrite(t)

SpecQuota == InitQuota /\ [][NextQuota]_vars

TypeQuota ==
    /\ now \in 1..MaxTime
    /\ last_request_time \in 0..MaxTime
    /\ \A t \in sharers : w_pc[t] \in {"idle", "sleep", "write"}
    /\ \A t \in sharers : w_wake[t] \in 0..(MaxTime + QUOTA_INTERVAL)
    /\ short_gap \in BOOLEAN

\* ------------------------------------- delete_user_emails, client shared
\* One accepted combined submission (lines 156-182) of each run that uses
\* the client; a step of a run is one statement or one callback, and the
\* steps of two runs interleave freely.
ShareFrame ==
    /\ UNCHANGED <<batch_size, rate_limit_hits>>
    /\ UNCHANGED <<deleteVars, deleteObs, fetchVars, quotaVars>>
    /\ UNCHANGED <<hrlVars, stateVars, jobVars, jobObs, schedVars, clockVars,
                   histObs, sharers, waitVars>>

InitShared ==
    /\ ClientInit
    /\ DeleteIdle
    /\ FetchIdle
    /\ HrlIdle
    /\ JobIdle
    /\ SchedIdle
    /\ HistIdle
    /\ QuotaInit
    /\ ClockIdle
    /\ WaitIdle
    /\ sharers \in SharerSets
    /\ s_pc = [t \in sharers |-> "reset"]
    /\ s_len \in [sharers -> 1..Min(MaxLen, batch_size)]
    /\ s_cb = [t \in sharers |-> 0]
    /\ s_own = [t \in sharers |-> 0]
    /\ s_deleted = [t \in sharers |-> 0]

\* lines 157-158: the counters of the client are set to zero
SharedReset(t) ==
    /\ s_pc[t] = "reset"
    /\ s_pc' = [s_pc EXCEPT ![t] = "execute"]
    /\ current_batch_success' = 0
    /\ current_batch_errors' = 0
    /\ UNCHANGED <<total_requests, s_len, s_cb, s_own, s_deleted>>
    /\ ShareFrame

\* lines 114-125, called by execute() of line 176 once per item
SharedCallback(t, ok) ==
    /\ s_pc[t] = "execute"
    /\ s_cb[t] < s_len[t]
    /\ s_cb' = [s_cb EXCEPT ![t] = @ + 1]
    /\ IF ok
       THEN /\ current_batch_success' = current_batch_success + 1
            /\ s_own' = [s_own EXCEPT ![t] = @ + 1]
            /\ UNCHANGED current_batch_errors
       ELSE /\ current_batch_errors' = current_batch_errors + 1
            /\ UNCHANGED <<current_batch_success, s_own>>
    /\ UNCHANGED <<total_requests, s_pc, s_len, s_deleted>>
    /\ ShareFrame

\* lines 177-180: deleted_count += self.current_batch_success
SharedCount(t) ==
    /\ s_pc[t] = "execute"
    /\ s_cb[t] = s_len[t]
    /\ s_pc' = [s_pc EXCEPT ![t] = "done"]
    /\ total_requests' = total_requests + s_len[t]
    /\ s_deleted' = [s_deleted EXCEPT ![t] = @ + current_batch_success]
    /\ UNCHANGED <<current_batch_success, current_batch_errors,
                   s_len, s_cb, s_own>>
    /\ ShareFrame

NextShared ==
    \/ \E t \in sharers : SharedReset(t)
    \/ \E t \in sharers, ok \in BOOLEAN : SharedCallback(t, ok)
    \/ \E t \in sharers : SharedCount(t)

SpecShared == InitShared /\ [][NextShared]_vars

TypeShared ==
    /\ \A t \in sharers :
          /\ s_pc[t] \in {"reset", "execute", "done"}
          /\ s_len[t] \in 1..MaxLen
          /\ s_cb[t] \in 0..s_len[t]
          /\ s_own[t] \in 0..s_cb[t]
          /\ s_deleted[t] \in 0..(2 * MaxLen)
    /\ current_batch_success \in 0..(2 * MaxLen)
    /\ current_batch_errors \in 0..(2 * MaxLen)

\* ------------------------------------------------------------------ main.py
\* A run of CleanupJob.run is followed by the category it is working on;
\* APScheduler runs at most one instance of a job id at a time
\* (max_instances = 1), and the two jobs have the ids 'cleanup' and
\* 'cleanup_manual'.
SchedFrame ==
    UNCHANGED <<clientVars, deleteVars, deleteObs, fetchVars, quotaVars,
                hrlVars, extraVars, stateVars, jobVars, jobObs>>

\* lifespan, lines 71-98: the client exists when credentials were saved
InitSched ==
    /\ ClientInit
    /\ DeleteIdle
    /\ FetchIdle
    /\ HrlIdle
    /\ ExtraIdle
    /\ JobIdle
    /\ QuotaInit
    /\ gmail_client \in {NoClient, 1}
    /\ cron_client = NoClient /\ cron_cat = 0
    /\ manual_client = NoClient /\ manual_cat = 0
    /\ manual_pending = FALSE

\* auth_callback, line 183: a new GmailClient replaces the current one
AuthCallback ==
    /\ gmail_client < MaxClients
    /\ gmail_client' = gmail_client + 1
    /\ UNCHANGED <<cron_client, cron_cat, manual_client, manual_cat,
                   manual_pending>>
    /\ SchedFrame

\* lines 83-94: the cron trigger fires job 'cleanup' (scheduled_cleanup)
CronFire ==
    /\ cron_cat = 0
    /\ gmail_client # NoClient
    /\ cron_client' = gmail_client
    /\ cron_cat' = 1
    /\ UNCHANGED <<gmail_client, manual_client, manual_cat, manual_pending>>
    /\ SchedFrame

\* lines 83-86: without a client scheduled_cleanup returns at once
CronSkip ==
    /\ cron_cat = 0
    /\ gmail_client = NoClient
    /\ UNCHANGED schedVars
    /\ SchedFrame

\* lines 208-221: POST /scheduler/run-now submits job 'cleanup_manual'
RunNow ==
    /\ gmail_client # NoClient
    /\ manual_pending' = TRUE
    /\ UNCHANGED <<gmail_client, cron_client, cron_cat, manual_client,
                   manual_cat>>
    /\ SchedFrame

\* lines 213-215: the scheduler starts _run of the submitted job, unless an
\* instance of 'cleanup_manual' is still running
ManualFire ==
    /\ manual_pending
    /\ manual_pending' = FALSE
    /\ IF manual_cat = 0
       THEN /\ manual_client' = gmail_client
            /\ manual_cat' = 1
       ELSE UNCHANGED <<manual_client, manual_cat>>
    /\ UNCHANGED <<gmail_client, cron_client, cron_cat>>
    /\ SchedFrame

\* scheduler.py lines 115-154: the cron run finishes a category
CronStep ==
    /\ cron_cat # 0
    /\ IF cron_cat < Len(categories)
       THEN /\ cron_cat' = cron_cat + 1
            /\ cron_client' = cron_client
       ELSE /\ cron_cat' = 0
            /\ cron_client' = NoClient
    /\ UNCHANGED <<gmail_client, manual_client, manual_cat, manual_pending>>
    /\ SchedFrame

\* scheduler.py lines 115-154: the manual run finishes a category
ManualStep ==
    /\ manual_cat # 0
    /\ IF manual_cat < Len(categories)
       THEN /\ manual_cat' = manual_cat + 1
            /\ manual_client' = manual_client
       ELSE /\ manual_cat' = 0
            /\ manual_client' = NoClient
    /\ UNCHANGED <<gmail_client, cron_client, cron_cat, manual_pending>>
    /\ SchedFrame

NextSched ==
    \/ AuthCallback
    \/ CronFire
    \/ CronSkip
    \/ RunNow
    \/ ManualFire
    \/ CronStep
    \/ ManualStep

SpecSched == InitSched /\ [][NextSched]_vars

TypeSched ==
    /\ gmail_client \in 0..MaxClients
    /\ cron_client \in 0..MaxClients
    /\ manual_client \in 0..MaxClients
    /\ cron_cat \in 0..Len(categories)
    /\ manual_cat \in 0..Len(categories)
    /\ manual_pending \in BOOLEAN

\* ------------------------------------------------------ _handle_rate_limit
\* delays are counted in units of 1/TicksPerSecond s, the grain of the
\* jitter of line 61
RECURSIVE Pow2(_)
Pow2(n) == IF n = 0 THEN 1 ELSE 2 * Pow2(n - 1)

\* variant: the exponential delay is not capped
BackoffUncapped(n) == MIN_BACKOFF_TIME * Pow2(n)

\* line 60: min(MAX_BACKOFF_TIME, MIN_BACKOFF_TIME * (2 ** retry_count))
Backoff(n) == Min(MAX_BACKOFF_TIME, MIN_BACKOFF_TIME * Pow2(n))

\* line 61: random.uniform(0, 0.1 * backoff), in ticks
Jitters(n) == 0..((TicksPerSecond * Backoff(n)) \div JitterDivisor)

InitBackoff ==
    /\ ClientInit
    /\ DeleteIdle
    /\ FetchIdle
    /\ HrlIdle
    /\ ExtraIdle
    /\ JobIdle
    /\ SchedIdle
    /\ QuotaInit

\* variant: the throttle event is counted only when a delay is returned
HandleRateLimitCountsDelays(n, jitter) ==
    /\ h_calls < MaxCalls
    /\ h_calls' = h_calls + 1
    /\ h_attempt' = n
    /\ IF HandleRateLimitRaises(n)
       THEN /\ h_outcome' = "raised" /\ h_delay' = 0
            /\ rate_limit_hits' = rate_limit_hits
       ELSE /\ h_outcome' = "delay"
            /\ h_delay' = TicksPerSecond * Backoff(n) + jitter
            /\ rate_limit_hits' = rate_limit_hits + 1
    /\ UNCHANGED <<batch_size, current_batch_success, current_batch_errors,
                   total_requests>>
    /\ UNCHANGED <<deleteVars, deleteObs, fetchVars, quotaVars>>
    /\ UNCHANGED <<stateVars, jobVars, jobObs, schedVars, extraVars>>

\* lines 50-66: _handle_rate_limit(retry_count)
HandleRateLimit(n, jitter) ==
    /\ h_calls < MaxCalls
    /\ h_calls' = h_calls + 1
    /\ h_attempt' = n
    /\ rate_limit_hits' = rate_limit_hits + 1
    /\ IF HandleRateLimitRaises(n)
       THEN /\ h_outcome' = "raised" /\ h_delay' = 0
       ELSE /\ h_outcome' = "delay"
            /\ h_delay' = TicksPerSecond * Backoff(n) + jitter
    /\ UNCHANGED <<batch_size, current_batch_success, current_batch_errors,
                   total_requests>>
    /\ UNCHANGED <<deleteVars, deleteObs, fetchVars, quotaVars>>
    /\ UNCHANGED <<stateVars, jobVars, jobObs, schedVars, extraVars>>

NextBackoff ==
    \E n \in 0..MaxAttempt : \E jitter \in Jitters(n) :
        HandleRateLimit(n, jitter)

SpecBackoff == InitBackoff /\ [][NextBackoff]_vars

TypeBackoff ==
    /\ h_outcome \in {"none", "delay", "raised"}
    /\ h_attempt \in 0..MaxAttempt
    /\ h_calls \in 0..MaxCalls

\* ----------------------------------------------------------- properties
RECURSIVE Flatten(_)
Flatten(ss) == IF ss = <<>> THEN <<>> ELSE Head(ss) \o Flatten(Tail(ss))

RECURSIVE SumTo(_, _)
SumTo(f, n) == IF n = 0 THEN 0 ELSE f[n] + SumTo(f, n - 1)

NoRepeat(s) == \A a, b \in 1..Len(s) : a # b => s[a] # s[b]

\* the run has ended, or the k-th batch is no longer the current one
BatchFinished(k) == pc \in {"done", "raised"} \/ k < Len(submitted)

\* the successful item outcomes of the k-th batch
BatchSuccesses(k) == Cardinality({p \in PositionsOf(k) : outcome[p] = "ok"})

\* the step that follows the last request for the item at fallback index fi
MovesPastItem ==
    IF fi < Len(batch)
    THEN pc' = "fallback" /\ fi' = fi + 1 /\ individual_retry' = 0
    ELSE IF i + batch_size < Len(messages)
         THEN pc' = "submit" /\ i' = i + batch_size
         ELSE pc' = "done" /\ result' = deleted_count

\* C1: whenever the combined submission of a batch fails with a
\* non-throttling error (an HttpError that is not 429 included), every
\* message of that batch receives an individual trash call in the fallback.
C1_FallbackExhaustive ==
    \A k \in 1..Len(submitted) :
        (batch_error[k] \in {"HttpError", "Exception"} /\ BatchFinished(k))
            => \A p \in PositionsOf(k) : outcome[p] # "none"

\* C2: a batch throttled until the retry limit is exhausted is handled by
\* the per-item fallback; the RateLimitError never leaves
\* delete_user_emails and the remaining batches are still processed.
C2_RateLimitHandledByFallback ==
    /\ raised # "RateLimitError"
    /\ \A k \in 1..Len(submitted) :
         (batch_error[k] = "RateLimitError" /\ BatchFinished(k))
             => \A p \in PositionsOf(k) : outcome[p] # "none"

\* C3: a batch whose submission is throttled k < MAX_RETRIES times never
\* surfaces an error to the caller; when it is then accepted it has been
\* resubmitted exactly k times and only the accepted submission is counted.
C3_ThrottlesBelowLimitAbsorbed ==
    /\ raised = "RateLimitError" => batch_throttles >= MAX_RETRIES
    /\ pc = "callbacks" => attempts = batch_throttles + 1
    /\ pc \in {"submit", "callbacks"} =>
          deleted_count = Cardinality({p \in 1..i : outcome[p] = "ok"})

\* the parts of C3 that do not depend on the retry budget
C3_AcceptedSubmissionCountedOnce ==
    /\ pc = "callbacks" => attempts = batch_throttles + 1
    /\ pc \in {"submit", "callbacks"} =>
          deleted_count = Cardinality({p \in 1..i : outcome[p] = "ok"})

\* C4: in the fallback an item throttled on every attempt is tried at most
\* MAX_RETRIES times, is then left as failed and uncounted, nothing is
\* raised, and the fallback goes on with the next item.
C4_Step ==
    (/\ pc = "fallback"
     /\ rate_limit_hits' # rate_limit_hits
     /\ item_tries' >= MAX_RETRIES)
        => /\ pc' # "raised"
           /\ raised' = "none"
           /\ deleted_count' = deleted_count
           /\ outcome'[i + fi] = "throttled"
           /\ MovesPastItem
C4_FallbackItemRetryBounded ==
    [](item_tries <= MAX_RETRIES) /\ [][C4_Step]_vars

C4_Witness ==
    /\ pc = "done" /\ Len(messages) = 2
    /\ batch_error[1] = "Exception"
    /\ outcome[1] = "throttled"
    /\ outcome[2] = "ok"
    /\ result = 1

\* C5: a permanent failure of one item (callback or fallback call) aborts
\* neither the batch nor the run: the next item or batch is up next, the
\* item is not counted, and a run that returns has an outcome for all items.
C5_Step ==
    \A p \in DOMAIN outcome :
        (outcome[p] # "failed" /\ outcome'[p] = "failed")
            => /\ pc' # "raised"
               /\ raised' = "none"
               /\ deleted_count' = deleted_count
               /\ current_batch_success' = current_batch_success
               /\ IF pc = "callbacks"
                  THEN pc' = "callbacks" /\ cb' = cb + 1
                  ELSE MovesPastItem
C5_ItemFailureNeverAborts ==
    /\ [](pc = "done" => \A p \in DOMAIN outcome : outcome[p] # "none")
    /\ [][C5_Step]_vars

C5_Witness ==
    /\ pc = "done" /\ Len(submitted) = 2
    /\ outcome[1] = "failed"
    /\ outcome[2] = "ok"
    /\ result = 1

\* C6: an item's throttling (429) outcome is recorded as its final outcome
\* only after MAX_RETRIES tries, also when it arrives through the callback
\* of an accepted batch.
C6_ThrottledItemRetried ==
    \A p \in DOMAIN outcome :
        (tried_pos = p /\ outcome[p] = "throttled")
            => item_tries >= MAX_RETRIES

\* C7 (as stated): the submitted batches are a deduplicated contiguous
\* partition of the input, each of at most min(batch_size, 25) ids, only the
\* last one smaller.
C7_DeduplicatedPartition ==
    LET cap == Min(requested_size, MaxBatchCap)
        flat == Flatten(submitted)
    IN pc = "done" =>
          /\ flat = messages
          /\ NoRepeat(flat)
          /\ \A k \in 1..Len(submitted) :
                /\ Len(submitted[k]) <= cap
                /\ k < Len(submitted) => Len(submitted[k]) = cap

\* C7 (amended): the submitted batches are the successive contiguous slices
\* of the input: their concatenation is a prefix of the input and the whole
\* input when the call returns, each has 1..min(batch_size, 25) ids, only
\* the last may be smaller, and an id is repeated among them exactly when
\* the input repeats it.
C7_ContiguousPartition ==
    LET cap == Min(requested_size, MaxBatchCap)
        flat == Flatten(submitted)
    IN /\ Len(flat) <= Len(messages)
       /\ flat = SubSeq(messages, 1, Len(flat))
       /\ pc = "done" => flat = messages
       /\ \A k \in 1..Len(submitted) :
             /\ Len(submitted[k]) \in 1..cap
             /\ k < Len(submitted) => Len(submitted[k]) = cap
       /\ NoRepeat(messages) => NoRepeat(flat)
       /\ (pc = "done" /\ ~NoRepeat(messages)) => ~NoRepeat(flat)

C7_Witness ==
    /\ pc = "done" /\ Len(submitted) = 2
    /\ ~NoRepeat(messages)
    /\ Flatten(submitted) = messages

C9_ReturnsAllPagesInOrder ==
    fpc = "done" =>
        /\ emails = Flatten(pages)
        /\ NoRepeat(Flatten(pages)) => NoRepeat(emails)

\* C10: fetch_user_emails is Done exactly when a successful response
\* carries no continuation token; otherwise the page of that token is
\* requested next, also after a response without message ids.
C10_DoneIffNoToken ==
    /\ fpc = "done" => resp_token = NoToken
    /\ (fpc = "page" /\ resp_token # NoToken) => page_token = resp_token

\* the pages that precede the page the next request asks for
PagesBefore(token) == SubSeq(pages, 1, PageFor(token) - 1)

\* C11: a throttled listing request is retried with the token it carried
\* and with the accumulator as it was, so the accumulated ids are always
\* exactly the pages before the one requested next: none skipped, none
\* appended twice.
C11_ThrottleRetriesSamePage ==
    /\ (fpc = "page" /\ last_result = "throttled")
          => /\ page_token = last_token
             /\ Len(emails) = emails_before
    /\ fpc = "page" => emails = Flatten(PagesBefore(page_token))

C11_Witness ==
    /\ fpc = "page" /\ last_result = "throttled"
    /\ page_token # NoToken
    /\ emails # <<>>

\* C12: after a non-throttling error of a listing request, or exhausted
\* throttling retries, fetch_user_emails returns no list: it raises, and
\* whatever leaves it is a GmailError.
C12_NoPartialListAfterFailure ==
    /\ f_cause # "none" => fpc = "raised"
    /\ fpc = "raised" => (f_raised = "GmailError" /\ f_cause # "none")
    /\ fpc = "done" => (f_cause = "none" /\ f_raised = "none"
                        /\ last_result = "ok")

C12_Witness ==
    /\ fpc = "raised" /\ f_cause = "HttpError"
    /\ f_raised = "GmailError"
    /\ emails # <<>>

\* C13: with fewer than MAX_RETRIES throttling responses fetch_user_emails
\* returns the complete list without an error, and it never retries more
\* than MAX_RETRIES times.
C13_ThrottlesBelowLimitSucceed ==
    /\ f_retry_count <= MAX_RETRIES
    /\ f_cause = "RateLimitError" => f_retry_count >= MAX_RETRIES
    /\ fpc = "done" => emails = Flatten(pages)

\* the part of C13 that is about the retry budget alone
C13_RetryBudgetRespected ==
    /\ f_retry_count <= MAX_RETRIES
    /\ f_cause = "RateLimitError" => f_retry_count >= MAX_RETRIES

\* C14: _wait_for_quota is called immediately before every outbound
\* request, the listing requests of fetch_user_emails included.
C14_QuotaGuardBeforeEveryRequest == quota_checked

\* in fetch_user_emails every throttling response is counted once
C16_FetchThrottlesCounted == fpc # "idle" => rate_limit_hits = f_retry_count

\* the part of C14 that is about delete_user_emails
C14_DeleteRequestsGuarded == pc # "idle" => quota_checked

\* the uncapped exponential MIN_BACKOFF * 2^n
RawBackoff(n) == MIN_BACKOFF_TIME * Pow2(n)

\* C15: a delay returned for attempt n lies in
\* [MIN_BACKOFF*2^n, 1.1*MIN_BACKOFF*2^n] while MIN_BACKOFF*2^n is at most
\* MAX_BACKOFF and in [MAX_BACKOFF, 1.1*MAX_BACKOFF] after that, and the
\* envelope min(MAX_BACKOFF, MIN_BACKOFF*2^n) never decreases with n.
C15_BackoffEnvelope ==
    /\ h_outcome = "delay" =>
          LET base == IF RawBackoff(h_attempt) <= MAX_BACKOFF_TIME
                      THEN RawBackoff(h_attempt)
                      ELSE MAX_BACKOFF_TIME
          IN  /\ TicksPerSecond * base <= h_delay
              /\ JitterDivisor * h_delay
                    <= (JitterDivisor + 1) * TicksPerSecond * base
    /\ \A n \in 0..MaxAttempt :
          /\ Backoff(n) <= Backoff(n + 1)
          /\ Backoff(n) = IF RawBackoff(n) <= MAX_BACKOFF_TIME
                          THEN RawBackoff(n)
                          ELSE MAX_BACKOFF_TIME

C15_Witness ==
    /\ h_outcome = "delay"
    /\ h_attempt = MAX_RETRIES - 1
    /\ h_delay > TicksPerSecond * Backoff(h_attempt)
    /\ Backoff(MaxAttempt) = MAX_BACKOFF_TIME
    /\ RawBackoff(MaxAttempt) > MAX_BACKOFF_TIME

\* C16: _handle_rate_limit raises exactly when the attempt is at least
\* MAX_RETRIES, and whether it raises or returns it adds one to
\* rate_limit_hits, which therefore equals the number of calls handled.
C16_Step ==
    /\ rate_limit_hits' >= rate_limit_hits
    /\ h_calls' # h_calls => rate_limit_hits' = rate_limit_hits + 1

C16_RaisesIffExhausted ==
    /\ [](h_outcome = "raised" => h_attempt >= MAX_RETRIES)
    /\ [](h_outcome = "delay" => h_attempt < MAX_RETRIES)
    /\ [](rate_limit_hits = h_calls)
    /\ [][C16_Step]_vars

C16_Witness ==
    /\ h_calls = MaxCalls
    /\ h_outcome = "raised"
    /\ h_attempt = MAX_RETRIES
    /\ rate_limit_hits = MaxCalls

\* a fetch/delete run for a category is starting on the client
RunStarts == jpc = "loop" /\ cat_idx <= Len(categories)

\* C17: the counters of the client are reset at the start of each run: when
\* a second fetch/delete run starts on the same GmailClient, total_requests,
\* rate_limit_hits and the success and error counters are 0.
C17_CountersResetPerRun ==
    RunStarts =>
        /\ total_requests = 0
        /\ rate_limit_hits = 0
        /\ current_batch_success = 0
        /\ current_batch_errors = 0

\* the part of C17 that holds: the first run on a client starts from 0
C17_FirstRunStartsAtZero ==
    (RunStarts /\ cat_idx = 1) =>
        /\ total_requests = 0
        /\ rate_limit_hits = 0
        /\ current_batch_success = 0
        /\ current_batch_errors = 0

RECURSIVE SumDeleted(_)
SumDeleted(results) ==
    IF results = <<>> THEN 0
    ELSE Head(results).deleted + SumDeleted(Tail(results))

\* results[k] is the result of the k-th configured category, for every k
InConfiguredOrder(results) ==
    \A k \in 1..Len(results) : results[k].category = categories[k]

NoError(results) == \A k \in 1..Len(results) : results[k].error = "none"

\* C18: no exception of fetch or delete leaves CleanupJob.run; every
\* configured category gets exactly one CategoryResult, in configured
\* order, also after a category that failed; the recorded run has success
\* exactly when no category has an error, and its total_deleted is the sum
\* of the deleted counts of its category results.
C18_RunRecordsEveryCategory ==
    /\ jpc # "escaped"
    /\ jpc \in {"loop", "fetching", "deleting"} =>
          /\ Len(category_results) = cat_idx - 1
          /\ InConfiguredOrder(category_results)
          /\ overall_success = NoError(category_results)
    /\ jpc = "done" =>
          /\ last_run # <<>>
          /\ run_history = last_run
          /\ Len(last_run[1].categories) = Len(categories)
          /\ InConfiguredOrder(last_run[1].categories)
          /\ last_run[1].success = NoError(last_run[1].categories)
          /\ last_run[1].total_deleted = SumDeleted(last_run[1].categories)

C18_Witness ==
    /\ jpc = "done"
    /\ Len(last_run[1].categories) = 2
    /\ last_run[1].categories[1].error = "HttpError"
    /\ last_run[1].categories[2].error = "none"
    /\ last_run[1].categories[2].deleted > 0
    /\ last_run[1].success = FALSE

RECURSIVE SumSeq(_)
SumSeq(ns) == IF ns = <<>> THEN 0 ELSE Head(ns) + SumSeq(Tail(ns))

\* C19: a run aborted while deleting a category still reports what was
\* confirmed deleted before the abort: the deleted count of every category
\* result, and total_deleted, cover every item whose deletion succeeded.
C19_AbortReportsConfirmedDeletions ==
    /\ Len(confirmed) = Len(category_results)
    /\ \A k \in 1..Len(category_results) :
          category_results[k].deleted >= confirmed[k]
    /\ jpc \in {"loop", "done"} => total_deleted >= SumSeq(confirmed)

\* the part of C19 that holds: a category whose delete returned reports
\* exactly the confirmed deletions
C19_ReturnedDeleteReportsAll ==
    \A k \in 1..Len(category_results) :
        (k <= Len(confirmed) /\ category_results[k].error = "none")
            => category_results[k].deleted = confirmed[k]

\* C20: the calling layer never has two executions of CleanupJob.run
\* active at once on the same GmailClient for the same category, however
\* the cron job 'cleanup' and the manual job 'cleanup_manual' interleave.
C20_NoOverlappingRuns ==
    ~ /\ cron_cat # 0
      /\ manual_cat # 0
      /\ cron_client = manual_client
      /\ categories[cron_cat] = categories[manual_cat]

\* the part of C20 that holds: a run only ever uses a client that exists
C20_RunsHaveClient ==
    /\ cron_cat # 0 => cron_client # NoClient
    /\ manual_cat # 0 => manual_client # NoClient

\* the first request of a batch after the first one is about to be made
NextBatchStarts == pc = "submit" /\ attempts = 0 /\ batch_count > 1

\* C23: BATCH_DELAY is slept after every batch but the last, before the
\* first request of the next batch, whether the batch went through the
\* combined submission or through the fallback, and never after the last.
C23_BatchDelayBetweenBatches ==
    /\ NextBatchStarts => last_sleep = "BATCH_DELAY"
    /\ (pc = "done" /\ submitted # <<>>) => last_sleep # "BATCH_DELAY"

\* the part of C23 that holds: the delay follows every combined submission
\* that is not the last, and is never slept after the last batch
C23_DelayAfterCombinedSubmission ==
    /\ (NextBatchStarts /\ batch_error[Len(batch_error)] = "none")
          => last_sleep = "BATCH_DELAY"
    /\ (pc = "done" /\ submitted # <<>>) => last_sleep # "BATCH_DELAY"

\* C24: the retry count is 0 when the first request for a page starts in
\* fetch_user_emails (and when the first submission of a batch starts in
\* delete_user_emails), so earlier throttling never costs a later page or
\* batch any of its retries.
C24_RetryBudgetPerPage ==
    (fpc = "page" /\ last_result # "throttled") => f_retry_count = 0

\* the same for delete_user_emails; it fails after a batch that ended in
\* the fallback
C24_RetryBudgetPerBatch ==
    (pc = "submit" /\ attempts = 0) => retry_count = 0

\* the part of C24 that holds: a batch that follows a combined submission
\* starts with all its retries
C24_FreshAfterCombinedSubmission ==
    (NextBatchStarts /\ batch_error[Len(batch_error)] = "none")
        => retry_count = 0

\* the category is absent from the cache, or its list is empty
NothingToDelete == ~cached \/ messages = <<>>

C26_Step ==
    (pc = "start" /\ NothingToDelete) =>
        /\ pc' = "done"
        /\ result' = 0
        /\ UNCHANGED <<clientVars, quotaVars>>

\* C26: for a category that is absent from the cache or has an empty list
\* delete_user_emails returns 0 without raising, sends no request and
\* leaves total_requests, rate_limit_hits, last_request_time and the
\* per-batch counters as they were.
C26_NothingToDeleteReturnsZero ==
    /\ [](NothingToDelete =>
            /\ pc \in {"idle", "start", "done"}
            /\ raised = "none"
            /\ submitted = <<>> /\ attempts = 0
            /\ last_request_time = 0
            /\ total_requests = 0 /\ rate_limit_hits = 0)
    /\ [][C26_Step]_vars

C26_Witness ==
    /\ pc = "done" /\ ~cached
    /\ result = 0 /\ last_request_time = 0

\* input positions covered by the batches started so far
Covered == IF pc \in {"idle", "start"} THEN 0 ELSE i + Len(batch)

\* C27: deleted_count is never negative and never more than the number of
\* input messages covered by started batches, no message counts twice, and
\* when a combined submission has succeeded current_batch_success +
\* current_batch_errors is the size of the batch.
C27_DeletedCountWithinCovered ==
    /\ 0 <= deleted_count
    /\ deleted_count <= Covered
    /\ Covered <= Len(messages)
    /\ deleted_count <= Cardinality({p \in 1..Covered : outcome[p] = "ok"})
    /\ (pc = "callbacks" /\ cb > Len(batch))
          => current_batch_success + current_batch_errors = Len(batch)
    /\ pc = "callbacks"
          => current_batch_success + current_batch_errors = cb - 1

C27_Witness ==
    /\ pc = "callbacks" /\ cb > Len(batch)
    /\ current_batch_success > 0 /\ current_batch_errors > 0
    /\ deleted_count = 0

\* C28: delete_user_emails returns or raises for every input and every
\* pattern of remote responses; the combined submission of a batch is
\* attempted at most MAX_RETRIES times, and so is the individual delete
\* call of an item in the fallback.
C28_DeleteTerminates ==
    /\ <>(pc \in {"done", "raised"})
    /\ [](attempts <= MAX_RETRIES)
    /\ [](item_tries <= MAX_RETRIES)

C28_Witness ==
    /\ pc = "done"
    /\ attempts = MAX_RETRIES
    /\ batch_throttles = MAX_RETRIES - 1
    /\ result > 0

\* C25: after record_run calls on a history of at most 10 records the
\* history holds at most 10 records, they are the latest recorded runs in
\* recording order, and last_run is the latest run and the last element of
\* the history.
C25_HistoryKeepsLatestRuns ==
    /\ Len(run_history) <= HISTORY_LIMIT
    /\ Len(run_history) = Min(HISTORY_LIMIT, Len(recorded))
    /\ \A k \in 1..Len(run_history) :
          run_history[k] = recorded[Len(recorded) - Len(run_history) + k]
    /\ records > 0 =>
          /\ last_run = <<recorded[Len(recorded)]>>
          /\ last_run[1] = run_history[Len(run_history)]

C25_Witness ==
    /\ records = MaxRecords
    /\ Len(recorded) > HISTORY_LIMIT + 1
    /\ Len(run_history) = HISTORY_LIMIT
    /\ run_history[1] # recorded[1]
    /\ last_run[1].success = FALSE

\* C22: two consecutive returns of _wait_for_quota on one client are at
\* least the minimum interval apart, and last_request_time is the time of
\* the latest return, also when two runs that share the client call it
\* concurrently.
C22_ReturnsSpacedByInterval ==
    /\ ~short_gap
    /\ last_request_time = last_return

\* the part of C22 that holds: the calls of a single run are spaced
C22_SingleRunSpaced ==
    /\ Cardinality(sharers) = 1 => ~short_gap
    /\ last_request_time = last_return

\* C21: when two executions of delete_user_emails interleave on the shared
\* client, the deleted_count of each is the number of its own successful
\* item outcomes.
C21_DeletedCountIsOwnSuccesses ==
    \A t \in sharers : s_pc[t] = "done" => s_deleted[t] = s_own[t]

\* the part of C21 that holds: an execution that has the client to itself
\* counts its own successful outcomes
C21_UnsharedCountIsOwn ==
    Cardinality(sharers) = 1 => C21_DeletedCountIsOwnSuccesses

====
